---- MODULE Spec2Model ----
(***************************************************************************)
(* Model of the obsidian-lunar-solar-sync plugin (src/src/main.ts).        *)
(*                                                                         *)
(* Text that the code inspects character by character (metadata values,    *)
(* key patterns, text typed into the settings tab) is a sequence of        *)
(* one-character strings.  Enumerations of the code (LeapStrategy,         *)
(* OutputMode, ProcessResult.status) are TLA+ strings.  A character        *)
(* outside ASCII is written as its code point: "U+95F0" is one character.  *)
(***************************************************************************)
EXTENDS Integers, Sequences, FiniteSets, TLC

VARIABLES
    call,       \* the last call of a pure function of main.ts: its inputs and its result
    settings,   \* LunarSolarSyncPlugin.settings
    persisted,  \* the plugin's stored data (loadData / saveData)
    vault,      \* file -> content of the note (app.vault)
    cache,      \* file -> frontmatter of the metadata cache (app.metadataCache)
    today,      \* the local date, moment()
    batch,      \* the run of runOnAll / runOnActiveFile in progress
    last,       \* file -> what the previous processFile of that file did
    runs        \* the number of calls of processFile so far

vars == <<call, settings, persisted, vault, cache, today, batch, last, runs>>

----------------------------------------------------------------------------
(* Generic helpers *)

NULL == [null |-> TRUE]

Min(a, b) == IF a <= b THEN a ELSE b

Max(a, b) == IF a >= b THEN a ELSE b

Range(s) == {s[i] : i \in DOMAIN s}

\* s.slice(from, to) with 0-based from (inclusive) and to (exclusive)
Slice(s, from, to) == [i \in 1..(to - from) |-> s[from + i]]

RECURSIVE SeqsUpTo(_, _)
SeqsUpTo(S, n) ==
    IF n = 0 THEN {<<>>}
    ELSE LET shorter == SeqsUpTo(S, n - 1)
         IN  shorter \cup {Append(s, c) : s \in {t \in shorter : Len(t) = n - 1}, c \in S}

----------------------------------------------------------------------------
(* Texts of the source *)

S_strict == <<"s", "t", "r", "i", "c", "t">>

S_forward == <<"f", "o", "r", "w", "a", "r", "d">>

S_backward == <<"b", "a", "c", "k", "w", "a", "r", "d">>

S_label_strict == <<"U+4E25", "U+683C", "U+95F0", "U+6708">>

S_label_forward == <<"U+5411", "U+524D", "U+6298", "U+7B97">>

S_label_backward == <<"U+5411", "U+540E", "U+6298", "U+7B97">>

S_constructor == <<"c", "o", "n", "s", "t", "r", "u", "c", "t", "o", "r">>

S_toString == <<"t", "o", "S", "t", "r", "i", "n", "g">>

S_valueOf == <<"v", "a", "l", "u", "e", "O", "f">>

S_hasOwnProperty == <<"h", "a", "s", "O", "w", "n", "P", "r", "o", "p", "e", "r", "t", "y">>

S___proto__ == <<"_", "_", "p", "r", "o", "t", "o", "_", "_">>

\* String.prototype.trim: white space is removed at both ends
WhiteSpace == {" ", "\t", "\n", "\r"}

RECURSIVE TrimStart(_)
TrimStart(s) ==
    IF s # <<>> /\ Head(s) \in WhiteSpace THEN TrimStart(Tail(s)) ELSE s

RECURSIVE TrimEnd(_)
TrimEnd(s) ==
    IF s # <<>> /\ s[Len(s)] \in WhiteSpace THEN TrimEnd(SubSeq(s, 1, Len(s) - 1)) ELSE s

Trim(s) == TrimEnd(TrimStart(s))

----------------------------------------------------------------------------
(* Plain JavaScript objects.  An object literal and the result of parseYaml *)
(* inherit from Object.prototype: a property read that finds no own        *)
(* property finds the inherited member, and an assignment to "__proto__"   *)
(* of a value that is not an object creates no own property.               *)

ObjectPrototypeKeys ==
    {S_constructor, S_toString, S_valueOf, S_hasOwnProperty, S___proto__}

\* what a read of an inherited member yields: a function or Object.prototype, truthy
PROTO_MEMBER == "Object.prototype member"

UNDEFINED == "undefined"

\* obj[key]
ObjectGet(obj, key) ==
    IF key \in DOMAIN obj THEN obj[key]
    ELSE IF key \in ObjectPrototypeKeys THEN PROTO_MEMBER
    ELSE UNDEFINED

\* obj[key] = value, value a string
ObjectSet(obj, key, value) ==
    IF key = S___proto__ THEN obj
    ELSE [k \in DOMAIN obj \cup {key} |-> IF k = key THEN value ELSE obj[k]]

\* Object.keys(obj)
ObjectKeys(obj) == DOMAIN obj

EmptyObject == [k \in {} |-> UNDEFINED]

----------------------------------------------------------------------------
(* Leap strategy *)

LeapStrategy == {"strict", "forward", "backward"}

LEAP_STRATEGY_LOOKUP ==
    [k \in {S_label_strict, S_label_forward, S_label_backward,
            S_strict, S_forward, S_backward} |->
        CASE k = S_label_strict -> "strict"
          [] k = S_label_forward -> "forward"
          [] k = S_label_backward -> "backward"
          [] k = S_strict -> "strict"
          [] k = S_forward -> "forward"
          [] k = S_backward -> "backward"]

\* A metadata value: value.t is its JavaScript type, value.v the text of a string
IsString(value) == value.t = "string"

parseLeapStrategy(value, fallback) ==
    IF IsString(value)
    THEN LET trimmed == Trim(value.v)
             mapped == ObjectGet(LEAP_STRATEGY_LOOKUP, trimmed)
         IN  IF mapped # UNDEFINED THEN mapped ELSE fallback
    ELSE fallback

----------------------------------------------------------------------------
(* The lunar calendar of lunar-typescript (Lunar, LunarYear), which the    *)
(* code calls and does not contain.  It is modelled as a lunisolar         *)
(* calendar of the same shape: a lunar year has twelve months of 30 and 29 *)
(* days and, in seven years of a cycle of nineteen, one leap month that    *)
(* follows the month of its number; its first day falls between 22 January *)
(* and 19 February.  The solar year has 365 days.                          *)

EpochYear == 2000

MetonicCycle == 19

SolarYearDays == 365

\* day of the solar year (0 = 1 January) of the lunar new year of EpochYear
EpochNewYear == 49

\* the years LunarYear.fromYear and Lunar.fromYmd know; they throw outside
MinLunarYear == 1990

MaxLunarYear == 2100

SupportedYears == MinLunarYear..MaxLunarYear

\* leap month of the year at each place of the cycle, 0 for none
LeapMonthCycle == <<0, 0, 4, 0, 0, 2, 0, 0, 6, 0, 5, 0, 0, 3, 0, 0, 11, 0, 7>>

CyclePlace(year) == (year - EpochYear) % MetonicCycle

\* LunarYear.fromYear(year).getLeapMonth()
getLeapMonth(year) == LeapMonthCycle[CyclePlace(year) + 1]

\* LunarMonth.getDayCount(), lunarMonth negative for the leap month
getDayCount(year, lunarMonth) ==
    IF lunarMonth < 0
    THEN (IF CyclePlace(year) = MetonicCycle - 1 THEN 29 ELSE 30)
    ELSE (IF lunarMonth % 2 = 1 THEN 30 ELSE 29)

LunarYearDays(year) ==
    354 + (IF getLeapMonth(year) = 0 THEN 0 ELSE getDayCount(year, 0 - getLeapMonth(year)))

\* days of the cycle before the year at place p
CycleOffset[p \in 0..MetonicCycle] ==
    IF p = 0 THEN 0 ELSE CycleOffset[p - 1] + LunarYearDays(EpochYear + p - 1)

\* the lunar new year of `year`, in days since 1 January of EpochYear
LunarNewYear(year) ==
    ((year - EpochYear) \div MetonicCycle) * CycleOffset[MetonicCycle]
        + CycleOffset[CyclePlace(year)] + EpochNewYear

\* LunarYear.getMonth(lunarMonth) finds a month
HasLunarMonth(year, lunarMonth) ==
    IF lunarMonth < 0 THEN getLeapMonth(year) # 0 /\ getLeapMonth(year) = 0 - lunarMonth
    ELSE lunarMonth \in 1..12

\* days of the lunar year before the first day of lunarMonth
DaysBeforeMonth(year, lunarMonth) ==
    LET m == IF lunarMonth < 0 THEN 0 - lunarMonth ELSE lunarMonth
        leap == getLeapMonth(year)
        ordinary == IF lunarMonth < 0 THEN m ELSE m - 1   \* ordinary months before
    IN  29 * ordinary + ((ordinary + 1) \div 2)
          + (IF lunarMonth > 0 /\ leap # 0 /\ leap < m THEN getDayCount(year, 0 - leap) ELSE 0)

MonthStart == <<0, 31, 59, 90, 120, 151, 181, 212, 243, 273, 304, 334, 365>>

\* the solar date of a day counted from 1 January of EpochYear
SolarOfDay(n) ==
    LET doy == n % SolarYearDays
        mon == CHOOSE k \in 1..12 : MonthStart[k] <= doy /\ doy < MonthStart[k + 1]
    IN  [year |-> EpochYear + (n \div SolarYearDays), month |-> mon,
         day |-> doy - MonthStart[mon] + 1]

\* Lunar.fromYmd(year, lunarMonth, day) throws
fromYmdThrows(year, lunarMonth, day) ==
    \/ year \notin SupportedYears
    \/ ~HasLunarMonth(year, lunarMonth)
    \/ day < 1
    \/ day > getDayCount(year, lunarMonth)

\* Lunar.fromYmd(year, lunarMonth, day).getSolar()
getSolar(year, lunarMonth, day) ==
    SolarOfDay(LunarNewYear(year) + DaysBeforeMonth(year, lunarMonth) + day - 1)

\* a.isSameOrAfter(b, "day") and a.isBefore(b, "day") of two dates
isSameOrAfter(a, b) ==
    \/ a.year > b.year
    \/ a.year = b.year /\ a.month > b.month
    \/ a.year = b.year /\ a.month = b.month /\ a.day >= b.day

----------------------------------------------------------------------------
(* Leap month resolution and conversion *)

yearHasLeapMonth(year, month) ==
    IF year \notin SupportedYears THEN FALSE    \* the lookup throws: caught
    ELSE getLeapMonth(year) = month

\* resolveLunarMonth with the backward branch not clamped at month 12
resolveLunarMonthNoClamp(year, lunar, strategy) ==
    IF ~lunar.isLeap THEN [month |-> lunar.month, isLeap |-> FALSE]
    ELSE IF yearHasLeapMonth(year, lunar.month) /\ strategy \in {"strict", "forward", "backward"}
    THEN [month |-> lunar.month, isLeap |-> TRUE]
    ELSE IF strategy = "forward" THEN [month |-> lunar.month, isLeap |-> FALSE]
    ELSE IF strategy = "backward" THEN [month |-> lunar.month + 1, isLeap |-> FALSE]
    ELSE NULL

resolveLunarMonth(year, lunar, strategy) ==
    IF ~lunar.isLeap THEN [month |-> lunar.month, isLeap |-> FALSE]
    ELSE LET hasLeap == yearHasLeapMonth(year, lunar.month)
         IN  IF strategy = "strict"
             THEN (IF ~hasLeap THEN NULL ELSE [month |-> lunar.month, isLeap |-> TRUE])
             ELSE IF strategy = "forward"
             THEN (IF hasLeap THEN [month |-> lunar.month, isLeap |-> TRUE]
                   ELSE [month |-> lunar.month, isLeap |-> FALSE])
             ELSE IF strategy = "backward"
             THEN (IF hasLeap THEN [month |-> lunar.month, isLeap |-> TRUE]
                   ELSE LET nextMonth == IF lunar.month = 12 THEN 12 ELSE lunar.month + 1
                        IN  [month |-> nextMonth, isLeap |-> FALSE])
             ELSE NULL

toSolar(year, lunar, strategy) ==
    LET resolved == resolveLunarMonth(year, lunar, strategy)
    IN  IF resolved = NULL THEN NULL
        ELSE LET lunarMonth == IF resolved.isLeap THEN 0 - resolved.month ELSE resolved.month
             IN  IF fromYmdThrows(year, lunarMonth, lunar.day) THEN NULL
                 ELSE getSolar(year, lunarMonth, lunar.day)

MAX_SEARCH_YEARS == 80

RECURSIVE findNextSolarFrom(_, _, _, _)
findNextSolarFrom(i, lunar, strategy, now) ==
    IF i >= MAX_SEARCH_YEARS THEN NULL
    ELSE LET targetYear == now.year + i
             solar == toSolar(targetYear, lunar, strategy)
         IN  IF solar # NULL /\ isSameOrAfter(solar, now) THEN solar
             ELSE findNextSolarFrom(i + 1, lunar, strategy, now)

\* findNextSolar with the scan starting at the year after the current one
findNextSolarSkippingThisYear(lunar, strategy, now) ==
    findNextSolarFrom(1, lunar, strategy, now)

\* `now` is moment().startOf("day")
findNextSolar(lunar, strategy, now) == findNextSolarFrom(0, lunar, strategy, now)

----------------------------------------------------------------------------
(* Settings *)

S_lunar_birthday ==
    <<"l", "u", "n", "a", "r", "-", "b", "i", "r", "t", "h", "d", "a", "y">>

S_birthday == <<"b", "i", "r", "t", "h", "d", "a", "y">>

S_YYYY_MM_DD == <<"Y", "Y", "Y", "Y", "-", "M", "M", "-", "D", "D">>

S_birthday_YYYY ==
    <<"[", "b", "i", "r", "t", "h", "d", "a", "y", "]", "-", "Y", "Y", "Y", "Y">>

S_leap_key == <<"U+95F0", "U+6708", "U+5904", "U+7406", "U+6A21", "U+5F0F">>

DEFAULT_SETTINGS ==
    [sourceKey |-> S_lunar_birthday,
     outputMode |-> "single",
     outputKeySingle |-> S_birthday,
     outputDateFormat |-> S_YYYY_MM_DD,
     outputKeyPattern |-> S_birthday_YYYY,
     rangePast |-> 1,
     rangeFuture |-> 1,
     defaultLeapStrategy |-> "forward",
     leapStrategyKey |-> S_leap_key,
     targets |-> <<>>]

----------------------------------------------------------------------------
(* Inputs of the calls *)

\* the years of "today" are FirstYear..FirstYear + YearSpan
FirstYear == 2025

YearSpan == 1

\* a parsed lunar date has two-digit month and day: 0..MaxLunarMonth, 0..MaxLunarDay
MaxLunarMonth == 13

MaxLunarDay == 31

\* target years around the years of today, and one year the calendar does not know
YearsAround == 8

Todays ==
    {[year |-> y, month |-> m, day |-> d] :
        y \in FirstYear..(FirstYear + YearSpan), m \in {1, 2, 7, 12}, d \in {1, 28}}

LunarDates ==
    {[year |-> 1990, month |-> m, day |-> d, isLeap |-> l] :
        m \in 0..MaxLunarMonth, d \in {0, 1, 10, 29, 30} \cup {MaxLunarDay}, l \in BOOLEAN}

TargetYears ==
    ((FirstYear - YearsAround)..(FirstYear + YearSpan + YearsAround)) \cup {MaxLunarYear + 1}

OverrideTexts ==
    LET known == DOMAIN LEAP_STRATEGY_LOOKUP
    IN  known
          \cup {<<" ">> \o k : k \in known}
          \cup {k \o <<" ", "\n">> : k \in known}
          \cup {<<>>, <<" ">>, <<"S", "t", "r", "i", "c", "t">>, <<"s", "t", "r", "i", "c">>,
                S_birthday, S_constructor, S_toString, S_valueOf, S___proto__}

\* what a metadata field can hold: nothing, a value that is no string, or a text
OverrideValues ==
    {[t |-> "undefined"], [t |-> "number"], [t |-> "boolean"], [t |-> "object"]}
        \cup {[t |-> "string", v |-> x] : x \in OverrideTexts}

NoCall == [op |-> "none"]

----------------------------------------------------------------------------
(* The calls of the pure functions: each behaviour makes one call, on      *)
(* inputs drawn from the sets above, and keeps its inputs and its result.  *)

CallParseLeapStrategy ==
    /\ call = NoCall
    /\ \E value \in OverrideValues, fallback \in LeapStrategy :
          call' = [op |-> "parseLeapStrategy", value |-> value, fallback |-> fallback,
                   result |-> parseLeapStrategy(value, fallback)]
    /\ UNCHANGED <<settings, persisted, vault, cache, today, batch, last, runs>>

CallResolveLunarMonth ==
    /\ call = NoCall
    /\ \E year \in TargetYears, lunar \in LunarDates, strategy \in LeapStrategy :
          call' = [op |-> "resolveLunarMonth", year |-> year, lunar |-> lunar,
                   strategy |-> strategy,
                   result |-> resolveLunarMonth(year, lunar, strategy)]
    /\ UNCHANGED <<settings, persisted, vault, cache, today, batch, last, runs>>

CallFindNextSolar ==
    /\ call = NoCall
    /\ \E lunar \in LunarDates, strategy \in LeapStrategy, now \in Todays :
          call' = [op |-> "findNextSolar", lunar |-> lunar, strategy |-> strategy,
                   now |-> now, result |-> findNextSolar(lunar, strategy, now)]
    /\ UNCHANGED <<settings, persisted, vault, cache, today, batch, last, runs>>

CallsInit ==
    /\ call = NoCall
    /\ settings = DEFAULT_SETTINGS
    /\ persisted = NULL
    /\ vault = <<>>
    /\ cache = <<>>
    /\ today = [year |-> FirstYear, month |-> 1, day |-> 1]
    /\ batch = [pc |-> "idle"]
    /\ last = <<>>
    /\ runs = 0

----------------------------------------------------------------------------
(* C1 *)

\* the years findNextSolar scans: the year of today and the 79 after it
SearchWindow(now) == now.year..(now.year + 79)

\* the years of the window whose date exists and is today or later
Qualifying(lunar, strategy, now) ==
    {y \in SearchWindow(now) :
        /\ toSolar(y, lunar, strategy) # NULL
        /\ isSameOrAfter(toSolar(y, lunar, strategy), now)}

MinOf(S) == CHOOSE y \in S : \A z \in S : y <= z

C1_WitnessLeap ==
    /\ call.op = "findNextSolar"
    /\ call.lunar.isLeap
    /\ call.strategy = "strict"
    /\ call.result # NULL
    /\ call.result.year > call.now.year + 1

\* no year of the window qualifies and there is no result
C1_WitnessNone ==
    /\ call.op = "findNextSolar"
    /\ call.result = NULL
    /\ call.lunar.month \in 1..12
    /\ call.lunar.day \in 1..29

----------------------------------------------------------------------------
(* C5 *)

\* C5: parseLeapStrategy is total: for every value of the override field the
\* result is one of strict, forward, backward; it is the variant the lookup
\* table gives when the text (white space at its ends aside) is one of the six
\* recognized strings, and the configured default for every other value.
C5_ParseLeapStrategyTotal ==
    call.op = "parseLeapStrategy" =>
        /\ call.result \in LeapStrategy
        /\ IF IsString(call.value) /\ Trim(call.value.v) \in DOMAIN LEAP_STRATEGY_LOOKUP
           THEN call.result = LEAP_STRATEGY_LOOKUP[Trim(call.value.v)]
           ELSE call.result = call.fallback

\* the override is a text that is none of the six and the default is returned
C5_WitnessFallback ==
    /\ call.op = "parseLeapStrategy"
    /\ IsString(call.value)
    /\ Trim(call.value.v) \notin DOMAIN LEAP_STRATEGY_LOOKUP
    /\ call.result = call.fallback

----------------------------------------------------------------------------
(* C6 *)

\* the year has the leap month; a lookup that fails counts as "has not"
YearHasLeap(year, month) ==
    year \in SupportedYears /\ LeapMonthCycle[((year - EpochYear) % 19) + 1] = month

\* the table of the leap month resolver
ReferenceResolve(year, lunar, strategy) ==
    CASE ~lunar.isLeap -> [month |-> lunar.month, isLeap |-> FALSE]
      [] lunar.isLeap /\ YearHasLeap(year, lunar.month) ->
            [month |-> lunar.month, isLeap |-> TRUE]
      [] lunar.isLeap /\ ~YearHasLeap(year, lunar.month) /\ strategy = "strict" -> NULL
      [] lunar.isLeap /\ ~YearHasLeap(year, lunar.month) /\ strategy = "forward" ->
            [month |-> lunar.month, isLeap |-> FALSE]
      [] lunar.isLeap /\ ~YearHasLeap(year, lunar.month) /\ strategy = "backward" ->
            [month |-> Min(lunar.month + 1, 12), isLeap |-> FALSE]

\* C6: for every target year, lunar date with month in 1..12 and strategy,
\* resolveLunarMonth equals the reference table; a resolved month is in 1..12.
C6_ResolveMatchesTable ==
    (call.op = "resolveLunarMonth" /\ call.lunar.month \in 1..12) =>
        /\ call.result = ReferenceResolve(call.year, call.lunar, call.strategy)
        /\ call.result # NULL => call.result.month \in 1..12

\* a leap twelfth month in a year without it, resolved backward: month 12
C6_Witness ==
    /\ call.op = "resolveLunarMonth"
    /\ call.lunar.isLeap
    /\ call.lunar.month = 12
    /\ call.strategy = "backward"
    /\ ~YearHasLeap(call.year, 12)
    /\ call.result = [month |-> 12, isLeap |-> FALSE]

\* the lookup of the leap month fails and the year counts as lacking it
C6_WitnessLookupFails ==
    /\ call.op = "resolveLunarMonth"
    /\ call.lunar.isLeap
    /\ call.year \notin SupportedYears
    /\ call.strategy = "strict"
    /\ call.result = NULL

\* a year that has the leap month keeps it under every strategy
C6_WitnessHasLeap ==
    /\ call.op = "resolveLunarMonth"
    /\ call.lunar.isLeap
    /\ YearHasLeap(call.year, call.lunar.month)
    /\ call.strategy = "backward"
    /\ call.result = [month |-> call.lunar.month, isLeap |-> TRUE]

----------------------------------------------------------------------------
(* Key templating: escapeLiteralForMoment and wrapLiteral *)

\* t is at 0-based index pos of s
IsAt(s, pos, t) ==
    /\ pos + Len(t) <= Len(s)
    /\ \A i \in 1..Len(t) : s[pos + i] = t[i]

\* the first of the alternatives, in their order, that is at pos; <<>> when none is
FirstAt(alternatives, s, pos) ==
    LET hits == {k \in 1..Len(alternatives) : IsAt(s, pos, alternatives[k])}
    IN  IF hits = {} THEN <<>>
        ELSE alternatives[CHOOSE k \in hits : \A j \in hits : k <= j]

\* the alternatives of tokenRe after \[.*?], an optional part tried first
TOKEN_RE ==
    <<<<"Y", "Y", "Y", "Y">>, <<"Y", "Y">>, <<"Q", "O">>, <<"Q">>, <<"M", "M", "M", "M">>, <<"M", "M", "M">>,
       <<"M", "M">>, <<"M">>, <<"D", "D", "D", "D">>, <<"D", "D", "D">>, <<"D", "D">>, <<"D">>,
       <<"D", "o">>, <<"d", "d", "d", "d">>, <<"d", "d", "d">>, <<"d", "d">>, <<"d">>, <<"W", "W", "W", "W">>,
       <<"W", "W", "W">>, <<"W", "W">>, <<"W">>, <<"H", "H">>, <<"H">>, <<"h", "h">>,
       <<"h">>, <<"m", "m">>, <<"m">>, <<"s", "s">>, <<"s">>, <<"A">>,
       <<"a">>, <<"X">>, <<"x">>, <<"Z", "Z">>, <<"Z">>, <<"S", "S", "S">>,
       <<"S", "S">>, <<"S">>>>

\* \[.*?] at pos: from "[" to the first "]" after it on the line; 0 when none
BracketRunLen(s, pos) ==
    IF pos < Len(s) /\ s[pos + 1] = "["
    THEN LET closes == {j \in (pos + 2)..Len(s) :
                           /\ s[j] = "]"
                           /\ \A i \in (pos + 2)..(j - 1) : s[i] \notin {"\n", "\r"}}
         IN  IF closes = {} THEN 0
             ELSE (CHOOSE j \in closes : \A i \in closes : j <= i) - pos
    ELSE 0

\* the length of the match of tokenRe that starts at pos, 0 when there is none
TokenReMatchLen(pattern, pos) ==
    IF BracketRunLen(pattern, pos) > 0 THEN BracketRunLen(pattern, pos)
    ELSE Len(FirstAt(TOKEN_RE, pattern, pos))

\* text.replace(/]/g, "\\]")
RECURSIVE EscapeClosing(_)
EscapeClosing(text) ==
    IF text = <<>> THEN <<>>
    ELSE (IF Head(text) = "]" THEN <<"\\", "]">> ELSE <<Head(text)>>)
            \o EscapeClosing(Tail(text))

wrapLiteral(text) ==
    IF text = <<>> THEN <<>> ELSE <<"[">> \o EscapeClosing(text) \o <<"]">>

\* the loop of tokenRe.exec from lastIndex, the search for the next match at pos
RECURSIVE escapeFrom(_, _, _)
escapeFrom(pattern, lastIndex, pos) ==
    IF pos >= Len(pattern)
    THEN (IF lastIndex < Len(pattern)
          THEN wrapLiteral(Slice(pattern, lastIndex, Len(pattern)))
          ELSE <<>>)
    ELSE LET n == TokenReMatchLen(pattern, pos)
         IN  IF n = 0 THEN escapeFrom(pattern, lastIndex, pos + 1)
             ELSE (IF pos > lastIndex
                   THEN wrapLiteral(Slice(pattern, lastIndex, pos))
                   ELSE <<>>)
                    \o Slice(pattern, pos, pos + n)
                    \o escapeFrom(pattern, pos + n, pos + n)

escapeLiteralForMoment(pattern) == escapeFrom(pattern, 0, 0)

----------------------------------------------------------------------------
(* moment's format, which the code calls and does not contain.  The pattern *)
(* is cut by moment's formattingTokens into bracketed runs \[[^\[]*\],      *)
(* tokens (an escaping backslash before them included) and single          *)
(* characters.  A bracketed run loses its outer brackets, a token that has *)
(* a format function is replaced by its value, any other piece loses its   *)
(* backslashes.  The values of year, month and day tokens are digits; the  *)
(* value of another token is written {token}.                              *)

\* the alternatives of formattingTokens between (\\)? and the final "."
MOMENT_TOKENS ==
    <<<<"H", "m", "m", "s", "s">>, <<"H", "m", "m">>, <<"h", "m", "m", "s", "s">>, <<"h", "m", "m">>, <<"M", "o">>, <<"M", "M", "M", "M">>,
       <<"M", "M", "M">>, <<"M", "M">>, <<"M">>, <<"D", "o">>, <<"D", "D", "D", "o">>, <<"D", "D", "D", "D">>,
       <<"D", "D", "D">>, <<"D", "D">>, <<"D">>, <<"d", "d", "d", "d">>, <<"d", "d", "d">>, <<"d", "d">>,
       <<"d", "o">>, <<"d">>, <<"w", "o">>, <<"w", "|">>, <<"w", "w">>, <<"w">>,
       <<"W", "o">>, <<"W", "|">>, <<"W", "W">>, <<"W">>, <<"Q", "o">>, <<"Q">>,
       <<"N", "N", "N", "N", "N">>, <<"N", "N", "N", "N">>, <<"N", "N", "N">>, <<"N", "N">>, <<"N">>, <<"Y", "Y", "Y", "Y", "Y", "Y">>,
       <<"Y", "Y", "Y", "Y", "Y">>, <<"Y", "Y", "Y", "Y">>, <<"Y", "Y">>, <<"y", "y", "y", "y">>, <<"y", "y", "y">>, <<"y", "y">>,
       <<"y", "o">>, <<"y">>, <<"g", "g", "g", "g", "g">>, <<"g", "g", "g", "g">>, <<"g", "g">>, <<"G", "G", "G", "G", "G">>,
       <<"G", "G", "G", "G">>, <<"G", "G">>, <<"e">>, <<"E">>, <<"a">>, <<"A">>,
       <<"h", "h">>, <<"h">>, <<"H", "H">>, <<"H">>, <<"k", "k">>, <<"k">>,
       <<"m", "m">>, <<"m">>, <<"s", "s">>, <<"s">>, <<"S", "S", "S", "S", "S", "S", "S", "S", "S">>, <<"S", "S", "S", "S", "S", "S", "S", "S">>,
       <<"S", "S", "S", "S", "S", "S", "S">>, <<"S", "S", "S", "S", "S", "S">>, <<"S", "S", "S", "S", "S">>, <<"S", "S", "S", "S">>, <<"S", "S", "S">>, <<"S", "S">>,
       <<"S">>, <<"x">>, <<"X">>, <<"z", "z">>, <<"z">>, <<"Z", "Z">>,
       <<"Z">>>>

\* the tokens that have a format function
MOMENT_FORMAT_FUNCTIONS ==
    Range(<<<<"M">>, <<"M", "o">>, <<"M", "M">>, <<"M", "M", "M">>, <<"M", "M", "M", "M">>, <<"Q">>,
       <<"Q", "o">>, <<"D">>, <<"D", "o">>, <<"D", "D">>, <<"D", "D", "D">>, <<"D", "D", "D", "o">>,
       <<"D", "D", "D", "D">>, <<"d">>, <<"d", "o">>, <<"d", "d">>, <<"d", "d", "d">>, <<"d", "d", "d", "d">>,
       <<"e">>, <<"E">>, <<"w">>, <<"w", "o">>, <<"w", "w">>, <<"W">>,
       <<"W", "o">>, <<"W", "W">>, <<"Y">>, <<"Y", "Y">>, <<"Y", "Y", "Y", "Y">>, <<"Y", "Y", "Y", "Y", "Y">>,
       <<"Y", "Y", "Y", "Y", "Y", "Y">>, <<"y">>, <<"y", "y">>, <<"y", "y", "y">>, <<"y", "y", "y", "y">>, <<"y", "o">>,
       <<"N">>, <<"N", "N">>, <<"N", "N", "N">>, <<"N", "N", "N", "N">>, <<"N", "N", "N", "N", "N">>, <<"g", "g">>,
       <<"g", "g", "g", "g">>, <<"g", "g", "g", "g", "g">>, <<"G", "G">>, <<"G", "G", "G", "G">>, <<"G", "G", "G", "G", "G">>, <<"a">>,
       <<"A">>, <<"H">>, <<"H", "H">>, <<"h">>, <<"h", "h">>, <<"k">>,
       <<"k", "k">>, <<"h", "m", "m">>, <<"h", "m", "m", "s", "s">>, <<"H", "m", "m">>, <<"H", "m", "m", "s", "s">>, <<"m">>,
       <<"m", "m">>, <<"s">>, <<"s", "s">>, <<"S">>, <<"S", "S">>, <<"S", "S", "S">>,
       <<"S", "S", "S", "S">>, <<"S", "S", "S", "S", "S">>, <<"S", "S", "S", "S", "S", "S">>, <<"S", "S", "S", "S", "S", "S", "S">>, <<"S", "S", "S", "S", "S", "S", "S", "S">>, <<"S", "S", "S", "S", "S", "S", "S", "S", "S">>,
       <<"z">>, <<"z", "z">>, <<"Z">>, <<"Z", "Z">>, <<"X">>, <<"x">>>>)

\* \[[^\[]*\] at pos: "[", characters that are not "[", up to the last "]" they reach
MomentBracketLen(s, pos) ==
    IF pos < Len(s) /\ s[pos + 1] = "["
    THEN LET closes == {j \in (pos + 2)..Len(s) :
                           /\ s[j] = "]"
                           /\ \A i \in (pos + 2)..(j - 1) : s[i] # "["}
         IN  IF closes = {} THEN 0
             ELSE (CHOOSE j \in closes : \A i \in closes : j >= i) - pos
    ELSE 0

\* the piece of the pattern that formattingTokens matches at pos
MomentPieceLen(s, pos) ==
    IF MomentBracketLen(s, pos) > 0 THEN MomentBracketLen(s, pos)
    ELSE LET esc == IF s[pos + 1] = "\\" /\ pos + 1 < Len(s) THEN 1 ELSE 0
             tok == FirstAt(MOMENT_TOKENS, s, pos + esc)
         IN  IF tok # <<>> THEN esc + Len(tok) ELSE esc + 1

DigitChars == <<"0", "1", "2", "3", "4", "5", "6", "7", "8", "9">>

\* the decimal digits of n >= 0, padded with zeros to width
RECURSIVE Digits(_, _)
Digits(n, width) ==
    IF n < 10 /\ width <= 1 THEN <<DigitChars[n + 1]>>
    ELSE Digits(n \div 10, width - 1) \o <<DigitChars[(n % 10) + 1]>>

TokenValue(date, tok) ==
    CASE tok \in {<<"Y", "Y", "Y", "Y">>, <<"Y">>} -> Digits(date.year, 4)
      [] tok = <<"Y", "Y">> -> Digits(date.year % 100, 2)
      [] tok = <<"M">> -> Digits(date.month, 1)
      [] tok = <<"M", "M">> -> Digits(date.month, 2)
      [] tok = <<"D">> -> Digits(date.day, 1)
      [] tok = <<"D", "D">> -> Digits(date.day, 2)
      [] OTHER -> <<"{">> \o tok \o <<"}">>

\* removeFormattingTokens
removeFormattingTokens(piece) ==
    IF Len(piece) >= 2 /\ \E i \in 1..(Len(piece) - 1) : piece[i] = "["
    THEN LET from == IF piece[1] = "[" THEN 1 ELSE 0
             to == IF piece[Len(piece)] = "]" THEN Len(piece) - 1 ELSE Len(piece)
         IN  Slice(piece, from, to)
    ELSE SelectSeq(piece, LAMBDA c : c # "\\")

RECURSIVE formatFrom(_, _, _)
formatFrom(date, pattern, pos) ==
    IF pos >= Len(pattern) THEN <<>>
    ELSE LET n == MomentPieceLen(pattern, pos)
             piece == Slice(pattern, pos, pos + n)
         IN  (IF piece \in MOMENT_FORMAT_FUNCTIONS THEN TokenValue(date, piece)
              ELSE removeFormattingTokens(piece))
                \o formatFrom(date, pattern, pos + n)

\* date.format(pattern)
format(date, pattern) == formatFrom(date, pattern, 0)

----------------------------------------------------------------------------
(* Range outputs *)

\* the loop of buildRangeOutputs from year y on
RECURSIVE buildRangeFrom(_, _, _, _, _, _, _)
buildRangeFrom(y, result, keyPattern, lunar, strategy, config, centerYear) ==
    IF y > centerYear + config.rangeFuture THEN result
    ELSE LET solar == toSolar(y, lunar, strategy)
             next == IF solar = NULL THEN result
                     ELSE ObjectSet(result, format(solar, keyPattern),
                                    format(solar, config.outputDateFormat))
         IN  buildRangeFrom(y + 1, next, keyPattern, lunar, strategy, config, centerYear)

buildRangeOutputs(lunar, strategy, config, centerYear) ==
    buildRangeFrom(centerYear - config.rangePast, EmptyObject,
                   escapeLiteralForMoment(config.outputKeyPattern),
                   lunar, strategy, config, centerYear)

----------------------------------------------------------------------------
(* Inputs of the calls of the templater and of buildRangeOutputs *)

\* patterns are the texts of at most MaxPatternLen characters of PatternAlphabet
MaxPatternLen == 4

PatternAlphabet == {"b", "-", "[", "]", "Y"}

\* moment's token of the quarter as an ordinal
S_Qo == <<"Q", "o">>

Patterns ==
    SeqsUpTo(PatternAlphabet, MaxPatternLen) \cup Range(TOKEN_RE)
        \cup {S_Qo, S_birthday_YYYY, S_YYYY_MM_DD}

\* rangePast and rangeFuture are 0..MaxRange
MaxRange == 2

S_YYYY == <<"Y", "Y", "Y", "Y">>

S_fixed_key == <<"[", "b", "]">>

S_proto_key == <<"[">> \o S___proto__ \o <<"]">>

KeyPatterns == {S_birthday_YYYY, S_YYYY, S_YYYY_MM_DD, S_fixed_key, S_proto_key}

RangeLunarDates ==
    {d \in LunarDates : d.month \in {2, 4, 11, 12} /\ d.day \in {10, 29, 30}}

RangeConfigs ==
    {[DEFAULT_SETTINGS EXCEPT !.outputMode = "range", !.outputKeyPattern = k,
                              !.rangePast = p, !.rangeFuture = f] :
        k \in KeyPatterns, p \in 0..MaxRange, f \in 0..MaxRange}

CallEscapeLiteralForMoment ==
    /\ call = NoCall
    /\ \E pattern \in Patterns, date \in {d \in Todays : d.month = 12 /\ d.day = 28} :
          call' = [op |-> "escapeLiteralForMoment", pattern |-> pattern, date |-> date,
                   result |-> escapeLiteralForMoment(pattern),
                   formatted |-> format(date, escapeLiteralForMoment(pattern))]
    /\ UNCHANGED <<settings, persisted, vault, cache, today, batch, last, runs>>

CallBuildRangeOutputs ==
    /\ call = NoCall
    /\ \E lunar \in RangeLunarDates, strategy \in LeapStrategy, config \in RangeConfigs,
          centerYear \in FirstYear..(FirstYear + YearSpan) :
          call' = [op |-> "buildRangeOutputs", lunar |-> lunar, strategy |-> strategy,
                   config |-> config, centerYear |-> centerYear,
                   result |-> buildRangeOutputs(lunar, strategy, config, centerYear)]
    /\ UNCHANGED <<settings, persisted, vault, cache, today, batch, last, runs>>

CallsNext ==
    \/ CallParseLeapStrategy
    \/ CallResolveLunarMonth
    \/ CallFindNextSolar
    \/ CallEscapeLiteralForMoment
    \/ CallBuildRangeOutputs

SpecCalls == CallsInit /\ [][CallsNext]_vars

----------------------------------------------------------------------------
(* C2 *)

\* the years of the window of a call of buildRangeOutputs
WindowYears(c) == (c.centerYear - c.config.rangePast)..(c.centerYear + c.config.rangeFuture)

\* the years of the window that toSolar converts
SuccessYears(c) == {y \in WindowYears(c) : toSolar(y, c.lunar, c.strategy) # NULL}

\* the key and the value that a year of the window yields
KeyOfYear(c, y) ==
    format(toSolar(y, c.lunar, c.strategy), escapeLiteralForMoment(c.config.outputKeyPattern))

ValueOfYear(c, y) == format(toSolar(y, c.lunar, c.strategy), c.config.outputDateFormat)

\* C2: the map of buildRangeOutputs is empty exactly when toSolar fails for
\* every year of the window; its keys are exactly the keys formatted from the
\* successful years; and the value under a key is that of the latest
\* successful year that formats to the key.
C2_BuildRangeExact ==
    call.op = "buildRangeOutputs" =>
        /\ (ObjectKeys(call.result) = {}) <=> (SuccessYears(call) = {})
        /\ ObjectKeys(call.result) = {KeyOfYear(call, y) : y \in SuccessYears(call)}
        /\ \A y \in SuccessYears(call) :
              LET same == {z \in SuccessYears(call) : KeyOfYear(call, z) = KeyOfYear(call, y)}
                  latest == CHOOSE z \in same : \A w \in same : z >= w
              IN  /\ KeyOfYear(call, y) \in ObjectKeys(call.result)
                  /\ call.result[KeyOfYear(call, y)] = ValueOfYear(call, latest)

\* the part of C2 that the code keeps: the same, for a key pattern that does
\* not format to "__proto__"
C2_BuildRangeExactOwnKeys ==
    (call.op = "buildRangeOutputs" /\ call.config.outputKeyPattern # S_proto_key) =>
        C2_BuildRangeExact

\* two successful years share a key and the later one is stored
C2_WitnessCollision ==
    /\ call.op = "buildRangeOutputs"
    /\ \E y, z \in SuccessYears(call) : y < z /\ KeyOfYear(call, y) = KeyOfYear(call, z)
    /\ Cardinality(ObjectKeys(call.result)) >= 1

----------------------------------------------------------------------------
(* C9 *)

\* the pattern has a match of tokenRe: a recognized token or a bracketed run
HasTokenOrRun(pattern) ==
    \E pos \in 0..(Len(pattern) - 1) : TokenReMatchLen(pattern, pos) > 0

\* C9: a pattern without recognized token and without bracketed run, a lone
\* "[" or "]" allowed, formats to itself after escapeLiteralForMoment, for
\* every date.
C9_LiteralRoundTrip ==
    (call.op = "escapeLiteralForMoment" /\ ~HasTokenOrRun(call.pattern)) =>
        call.formatted = call.pattern

\* the part of C9 that the code keeps: the same, for a pattern without brackets
C9_LiteralRoundTripNoBracket ==
    (/\ call.op = "escapeLiteralForMoment"
     /\ ~HasTokenOrRun(call.pattern)
     /\ "[" \notin Range(call.pattern)
     /\ "]" \notin Range(call.pattern)) =>
        call.formatted = call.pattern

\* a literal pattern of several characters has been escaped and formatted
C9_Witness ==
    /\ call.op = "escapeLiteralForMoment"
    /\ ~HasTokenOrRun(call.pattern)
    /\ Len(call.pattern) >= 2
    /\ call.formatted = call.pattern

----------------------------------------------------------------------------
(* C10 *)

\* "birthday-" and the four digits of a year
BirthdayKey(y) == S_birthday \o <<"-">> \o Digits(y, 4)

\* C10: with the key pattern "[birthday]-YYYY", every year y of the window
\* that toSolar converts has its entry under the key "birthday-y", so the
\* successful years have as many keys.
C10_KeyPerWindowYear ==
    (call.op = "buildRangeOutputs" /\ call.config.outputKeyPattern = S_birthday_YYYY) =>
        /\ \A y \in SuccessYears(call) :
              /\ BirthdayKey(y) \in ObjectKeys(call.result)
              /\ call.result[BirthdayKey(y)] = ValueOfYear(call, y)
        /\ Cardinality(ObjectKeys(call.result)) = Cardinality(SuccessYears(call))

\* what the code does: the key carries the year of the solar date
C10_KeyPerSolarYear ==
    (call.op = "buildRangeOutputs" /\ call.config.outputKeyPattern = S_birthday_YYYY) =>
        \A y \in SuccessYears(call) :
            BirthdayKey(toSolar(y, call.lunar, call.strategy).year) \in ObjectKeys(call.result)

----------------------------------------------------------------------------
(* C11 *)

\* the recognized tokens: YYYY, YY, Q, Qo, MMMM..M, DDDD..D, Do, dddd..d,
\* WWWW..W, HH, H, hh, h, mm, m, ss, s, A, a, X, x, Z, ZZ, SSS, SS, S
RecognizedTokens ==
    {<<"Y", "Y", "Y", "Y">>, <<"Y", "Y">>, <<"Q">>, <<"Q", "o">>,
     <<"M", "M", "M", "M">>, <<"M", "M", "M">>, <<"M", "M">>, <<"M">>,
     <<"D", "D", "D", "D">>, <<"D", "D", "D">>, <<"D", "D">>, <<"D">>, <<"D", "o">>,
     <<"d", "d", "d", "d">>, <<"d", "d", "d">>, <<"d", "d">>, <<"d">>,
     <<"W", "W", "W", "W">>, <<"W", "W", "W">>, <<"W", "W">>, <<"W">>,
     <<"H", "H">>, <<"H">>, <<"h", "h">>, <<"h">>, <<"m", "m">>, <<"m">>,
     <<"s", "s">>, <<"s">>, <<"A">>, <<"a">>, <<"X">>, <<"x">>,
     <<"Z">>, <<"Z", "Z">>, <<"S", "S", "S">>, <<"S", "S">>, <<"S">>}

\* a run from "[" to "]" with no bracket between them
IsBracketRun(pattern) ==
    /\ Len(pattern) >= 2
    /\ pattern[1] = "["
    /\ pattern[Len(pattern)] = "]"
    /\ \A i \in 2..(Len(pattern) - 1) : pattern[i] \notin {"[", "]"}

\* C11: escapeLiteralForMoment returns every recognized token as it is, so
\* that no token of several characters is cut into a shorter token and a
\* wrapped rest, and returns every bracketed run as it is.
C11_TokensKept ==
    call.op = "escapeLiteralForMoment" =>
        /\ call.pattern \in RecognizedTokens => call.result = call.pattern
        /\ IsBracketRun(call.pattern) => call.result = call.pattern

\* the part of C11 that the code keeps: the same, for the tokens other than
\* Qo and Do, and for the bracketed runs
C11_TokensKeptButOrdinals ==
    call.op = "escapeLiteralForMoment" =>
        /\ call.pattern \in RecognizedTokens \ {<<"Q", "o">>, <<"D", "o">>} =>
              call.result = call.pattern
        /\ IsBracketRun(call.pattern) => call.result = call.pattern

\* what the code does with the two ordinal tokens: the o is wrapped
C11_OrdinalsCut ==
    (call.op = "escapeLiteralForMoment" /\ call.pattern \in {<<"Q", "o">>, <<"D", "o">>}) =>
        call.result = <<call.pattern[1], "[", "o", "]">>

\* a token of four characters and a bracketed run have been escaped
C11_WitnessLongToken ==
    /\ call.op = "escapeLiteralForMoment"
    /\ call.pattern = <<"D", "D", "D", "D">>
    /\ call.result = call.pattern

----------------------------------------------------------------------------
(* The settings tab: Number(value) of the text of a range field, the       *)
(* handlers of the fields, loadSettings and saveSettings.                  *)

S_Infinity == <<"I", "n", "f", "i", "n", "i", "t", "y">>

IsDigit(c) == \E k \in 1..10 : DigitChars[k] = c

DigitValue(c) == (CHOOSE k \in 1..10 : DigitChars[k] = c) - 1

RECURSIVE DigitsValue(_)
DigitsValue(ds) ==
    IF ds = <<>> THEN 0 ELSE 10 * DigitsValue(SubSeq(ds, 1, Len(ds) - 1)) + DigitValue(ds[Len(ds)])

NaN == [kind |-> "NaN"]

\* a finite number: its sign, the integer part of its magnitude, and whether
\* the magnitude has a fraction
Finite(sign, int, frac) == [kind |-> "finite", sign |-> sign, int |-> int, frac |-> frac]

\* Number of a text without sign: digits, digits "." digits, "." digits, Infinity
UnsignedNumber(sign, t) ==
    LET dots == {i \in 1..Len(t) : t[i] = "."}
    IN  IF t = S_Infinity THEN [kind |-> "infinite", sign |-> sign]
        ELSE IF t = <<>> \/ \E i \in 1..Len(t) : ~IsDigit(t[i]) /\ t[i] # "." THEN NaN
        ELSE IF Cardinality(dots) > 1 \/ Len(t) = Cardinality(dots) THEN NaN
        ELSE IF dots = {} THEN Finite(sign, DigitsValue(t), FALSE)
        ELSE LET dot == CHOOSE i \in dots : TRUE
                 fraction == SubSeq(t, dot + 1, Len(t))
             IN  Finite(sign, DigitsValue(SubSeq(t, 1, dot - 1)),
                        \E i \in 1..Len(fraction) : fraction[i] # "0")

\* Number(value) of a text of digits, ".", "-", "+", white space and letters
\* other than "e", "x", "o", "b" in a numeric place
Number(value) ==
    LET t == Trim(value)
    IN  IF t = <<>> THEN Finite(1, 0, FALSE)
        ELSE IF Head(t) = "-" THEN UnsignedNumber(-1, Tail(t))
        ELSE IF Head(t) = "+" THEN UnsignedNumber(1, Tail(t))
        ELSE UnsignedNumber(1, t)

\* Number.isFinite(n)
isFinite(n) == n.kind = "finite"

\* Math.floor(n) of a finite n
floor(n) ==
    IF n.sign = 1 THEN n.int
    ELSE IF n.frac THEN 0 - n.int - 1 ELSE 0 - n.int

\* Number.isFinite(n) ? Math.max(0, Math.floor(n)) : 0
\* the handler of a range field without Math.max(0, ...)
RangeBoundNoClamp(n) == IF isFinite(n) THEN floor(n) ELSE 0

RangeBound(n) == IF isFinite(n) THEN Max(0, floor(n)) ELSE 0

\* value.trim() || fallback
TrimOr(value, fallback) == IF Trim(value) = <<>> THEN fallback ELSE Trim(value)

\* Object.assign({}, DEFAULT_SETTINGS, await this.loadData())
loadSettings(data) == IF data = NULL THEN DEFAULT_SETTINGS ELSE data

\* texts typed into a range field: at most MaxTextLen characters of TextAlphabet
MaxTextLen == 3

TextAlphabet == {"-", ".", "3"}

RangeTexts ==
    SeqsUpTo(TextAlphabet, MaxTextLen)
        \cup {S_Infinity, <<"-">> \o S_Infinity, <<" ", "3", " ">>, <<"3", ".", "0">>,
              <<"-", "0", ".", "5">>, <<"x">>, <<"3", "x">>, <<"x", "3">>, <<"-", "x">>}

KeyTexts == {<<>>, <<" ">> \o S_birthday \o <<" ">>, S_lunar_birthday, <<"b">>}

\* the handler of the first text field of the range setting and saveSettings
SetRangePast ==
    /\ settings.outputMode = "range"
    /\ \E value \in RangeTexts :
          /\ settings' = [settings EXCEPT !.rangePast = RangeBound(Number(value))]
          /\ call' = [op |-> "setRangePast", value |-> value]
    /\ persisted' = settings'
    /\ UNCHANGED <<vault, cache, today, batch, last, runs>>

\* the handler of the second text field of the range setting and saveSettings
SetRangeFuture ==
    /\ settings.outputMode = "range"
    /\ \E value \in RangeTexts :
          /\ settings' = [settings EXCEPT !.rangeFuture = RangeBound(Number(value))]
          /\ call' = [op |-> "setRangeFuture", value |-> value]
    /\ persisted' = settings'
    /\ UNCHANGED <<vault, cache, today, batch, last, runs>>

\* the handler of the output mode dropdown, whose options are single and range
SetOutputMode ==
    /\ \E value \in {"single", "range"} :
          /\ settings' = [settings EXCEPT !.outputMode = value]
          /\ call' = [op |-> "setOutputMode", value |-> value]
    /\ persisted' = settings'
    /\ UNCHANGED <<vault, cache, today, batch, last, runs>>

\* the handler of the source key field
SetSourceKey ==
    /\ \E value \in KeyTexts :
          /\ settings' = [settings EXCEPT !.sourceKey = TrimOr(value, S_lunar_birthday)]
          /\ call' = [op |-> "setSourceKey", value |-> value]
    /\ persisted' = settings'
    /\ UNCHANGED <<vault, cache, today, batch, last, runs>>

\* the handler of the output key field, shown in single mode
SetOutputKeySingle ==
    /\ settings.outputMode = "single"
    /\ \E value \in KeyTexts :
          /\ settings' = [settings EXCEPT !.outputKeySingle = TrimOr(value, S_birthday)]
          /\ call' = [op |-> "setOutputKeySingle", value |-> value]
    /\ persisted' = settings'
    /\ UNCHANGED <<vault, cache, today, batch, last, runs>>

\* onload: loadSettings
LoadSettings ==
    /\ settings' = loadSettings(persisted)
    /\ call' = [op |-> "loadSettings"]
    /\ UNCHANGED <<persisted, vault, cache, today, batch, last, runs>>

SettingsInit ==
    /\ call = NoCall
    /\ settings = DEFAULT_SETTINGS
    /\ persisted = NULL
    /\ vault = <<>>
    /\ cache = <<>>
    /\ today = [year |-> FirstYear, month |-> 1, day |-> 1]
    /\ batch = [pc |-> "idle"]
    /\ last = <<>>
    /\ runs = 0

SettingsNext ==
    \/ LoadSettings
    \/ SetOutputMode
    \/ SetRangePast
    \/ SetRangeFuture
    \/ SetSourceKey
    \/ SetOutputKeySingle

SpecSettings == SettingsInit /\ [][SettingsNext]_vars

----------------------------------------------------------------------------
(* C7 *)

ValidSettings(config) ==
    /\ config.rangePast \in Nat
    /\ config.rangeFuture \in Nat
    /\ config.outputMode \in {"single", "range"}

\* C7: after any sequence of loads, edits of the range fields with any text
\* and saves, rangePast and rangeFuture are non-negative integers and
\* outputMode is single or range, in the settings in use and in the stored ones.
C7_SettingsValid ==
    /\ ValidSettings(settings)
    /\ persisted # NULL => ValidSettings(persisted)

\* a text that is no number, or a negative or fractional one, has been typed
\* in a range field and the bound stored is a non-negative integer
C7_Witness ==
    /\ call.op = "setRangePast"
    /\ \/ ~isFinite(Number(call.value))
       \/ Number(call.value).sign = -1 /\ Number(call.value).int > 0
       \/ Number(call.value).frac
    /\ settings.rangePast \in Nat
    /\ persisted = settings

\* the source key and the output key of single mode can be set to the same name
C7_WitnessSameKeys ==
    /\ settings.outputMode = "single"
    /\ settings.outputKeySingle = settings.sourceKey

----------------------------------------------------------------------------
(* Notes.  The content of a note is its metadata block, decoded, and its   *)
(* body: fm says whether the content starts with a block that the regular  *)
(* expression of writeFrontmatter matches, data is parseYaml of the block  *)
(* and body is the text after it.  parseYaml and stringifyYaml are the     *)
(* host's codec; stringifyYaml followed by parseYaml gives the mapping     *)
(* back.  A metadata value v is [t |-> its type] and, for a string, its    *)
(* text v.v.                                                               *)

Str(text) == [t |-> "string", v |-> text]

\* frontmatter[key] of a decoded metadata block
FieldGet(obj, key) ==
    IF key \in DOMAIN obj THEN obj[key]
    ELSE IF key \in ObjectPrototypeKeys THEN [t |-> "function"]
    ELSE [t |-> "undefined"]

S_nongli == <<"U+519C", "U+5386">>

S_run == "U+95F0"

AllDigits(t) == \A i \in 1..Len(t) : IsDigit(t[i])

\* raw.match(LUNAR_INPUT_RE) and the conversion of its groups
parseLunar(raw) ==
    LET afterTag == IF IsAt(raw, 0, S_nongli) THEN Slice(raw, 2, Len(raw)) ELSE raw
        t == TrimEnd(TrimStart(afterTag))
        leap == Len(t) = 11 /\ t[6] = S_run
        rest == IF leap THEN SubSeq(t, 1, 5) \o SubSeq(t, 7, 11) ELSE t
    IN  IF /\ Len(rest) = 10
           /\ AllDigits(SubSeq(rest, 1, 4))
           /\ rest[5] = "-"
           /\ AllDigits(SubSeq(rest, 6, 7))
           /\ rest[8] = "-"
           /\ AllDigits(SubSeq(rest, 9, 10))
        THEN [year |-> DigitsValue(SubSeq(rest, 1, 4)),
              month |-> DigitsValue(SubSeq(rest, 6, 7)),
              day |-> DigitsValue(SubSeq(rest, 9, 10)),
              isLeap |-> leap]
        ELSE NULL

\* writeFrontmatter writing the updates alone as the frontmatter
writeFrontmatterUpdatesOnly(content, updates, fault) ==
    LET data == IF content.fm THEN content.data ELSE EmptyObject
        changed == \E key \in ObjectKeys(updates) :
                       key \notin DOMAIN data \/ data[key] # Str(updates[key])
    IN  IF fault = "read" THEN [thrown |-> TRUE, changed |-> FALSE, content |-> content]
        ELSE IF ~changed THEN [thrown |-> FALSE, changed |-> FALSE, content |-> content]
        ELSE IF fault = "modify" THEN [thrown |-> TRUE, changed |-> FALSE, content |-> content]
        ELSE [thrown |-> FALSE, changed |-> TRUE,
              content |-> [fm |-> TRUE,
                           data |-> [key \in ObjectKeys(updates) |-> Str(updates[key])],
                           body |-> content.body]]

\* writeFrontmatter: fault is the operation of the vault that rejects, if any.
\* The result says whether an exception left the function, what it returned
\* and the content of the note afterwards.
writeFrontmatter(content, updates, fault) ==
    LET data == IF content.fm THEN content.data ELSE EmptyObject
        differs(key) == key \notin DOMAIN data \/ data[key] # Str(updates[key])
        changed == \E key \in ObjectKeys(updates) : differs(key)
        merged == [key \in DOMAIN data \cup ObjectKeys(updates) |->
                      IF key \in ObjectKeys(updates) THEN Str(updates[key]) ELSE data[key]]
    IN  IF fault = "read" THEN [thrown |-> TRUE, changed |-> FALSE, content |-> content]
        ELSE IF ~changed THEN [thrown |-> FALSE, changed |-> FALSE, content |-> content]
        ELSE IF fault = "modify" THEN [thrown |-> TRUE, changed |-> FALSE, content |-> content]
        ELSE [thrown |-> FALSE, changed |-> TRUE,
              content |-> [fm |-> TRUE, data |-> merged, body |-> content.body]]

Skipped(reason, content) == [status |-> "skipped", reason |-> reason]

\* The(S) is the element of a one-element set.  The({e(x) : x \in {v}}) names
\* the value v as x in e(x), as a const declaration names it in the source.
The(S) == CHOOSE x \in S : TRUE

\* the body of the try block of processFile, up to the call of writeFrontmatter:
\* the outcome when it returns early, the updates otherwise
planUpdates(cached, content, config, now) ==
    IF ~cached.has THEN Skipped("no-frontmatter", content)
    ELSE The({
      IF ~IsString(raw) THEN Skipped("no-source-key", content)
      ELSE The({
        IF lunar = NULL THEN Skipped("invalid-format", content)
        ELSE The({
          IF config.outputMode = "single"
          THEN The({
                 IF solar = NULL THEN Skipped("no-solar", content)
                 ELSE [status |-> "write",
                       updates |-> ObjectSet(EmptyObject, config.outputKeySingle,
                                             format(solar, config.outputDateFormat))]
                 : solar \in {findNextSolar(lunar, leapStrategy, now)} })
          ELSE The({
                 IF ObjectKeys(updates) = {} THEN Skipped("no-solar", content)
                 ELSE [status |-> "write", updates |-> updates]
                 : updates \in {buildRangeOutputs(lunar, leapStrategy, config, now.year)} })
          : leapStrategy \in
              {parseLeapStrategy(FieldGet(cached.frontmatter, config.leapStrategyKey),
                                 config.defaultLeapStrategy)} })
        : lunar \in {parseLunar(raw.v)} })
      : raw \in {FieldGet(cached.frontmatter, config.sourceKey)} })

\* an exception leaves the try block of processFile: fault says which one
Thrown(content, updates, fault) ==
    [status |-> "thrown", reason |-> "", content |-> content, updates |-> updates,
     thrown |-> TRUE, fault |-> fault]

\* the try block of processFile: the outcome, the content of the note
\* afterwards and the updates it computed; thrown says that an exception left
\* the block, and fault which one.  The argument fault is what fails if it is
\* reached: "compute" is an exception before writeFrontmatter.
tryProcessFile(cached, content, config, now, fault) ==
    IF fault = "compute" THEN Thrown(content, EmptyObject, fault)
    ELSE The({
      IF plan.status = "skipped"
      THEN [status |-> "skipped", reason |-> plan.reason, content |-> content,
            updates |-> EmptyObject, thrown |-> FALSE, fault |-> "none"]
      ELSE The({
             IF w.thrown THEN Thrown(content, plan.updates, fault)
             ELSE [status |-> IF w.changed THEN "updated" ELSE "unchanged",
                   reason |-> "", content |-> w.content, updates |-> plan.updates,
                   thrown |-> FALSE, fault |-> "none"]
             : w \in {writeFrontmatter(content, plan.updates, fault)} })
      : plan \in {planUpdates(cached, content, config, now)} })

\* processFile without its catch block: an exception leaves it
processFileNoCatch(cached, content, config, now, fault) ==
    tryProcessFile(cached, content, config, now, fault)

\* processFile: the catch block turns an exception into the outcome failed
processFile(cached, content, config, now, fault) ==
    The({ IF r.thrown
          THEN [r EXCEPT !.status = "failed", !.reason = "exception", !.thrown = FALSE]
          ELSE r
          : r \in {tryProcessFile(cached, content, config, now, fault)} })

\* reportResult: the four counts of the notice
reportResult(results) ==
    LET count(st) == Cardinality({i \in 1..Len(results) : results[i].status = st})
    IN  [updated |-> count("updated"), unchanged |-> count("unchanged"),
         skipped |-> count("skipped"),
         failed |-> Cardinality({i \in 1..Len(results) :
                        results[i].status \notin {"updated", "unchanged", "skipped"}})]


----------------------------------------------------------------------------
(* The vault, the two commands and the host's events *)

\* the notes of the vault are 1..MaxFiles
MaxFiles == 2

\* the commands call processFile at most MaxRuns times in a behaviour
MaxRuns == 3

Files == 1..MaxFiles

\* file.path
Path(f) == IF f = 1 THEN <<"a">> ELSE <<"d", "/">> \o Digits(f, 1)

S_title == <<"t", "i", "t", "l", "e">>

S_2023_02_10 == <<"2", "0", "2", "3", "-", "0", "2", "-", "1", "0">>

S_leap_04_10 ==
    S_nongli \o <<"2", "0", "2", "3", "-", S_run, "0", "4", "-", "1", "0">>

S_2023_2_10 == <<"2", "0", "2", "3", "-", "2", "-", "1", "0">>

Note(data) == [fm |-> TRUE, data |-> data, body |-> "text"]

Fields(keys, values) ==
    [k \in Range(keys) |-> values[CHOOSE i \in 1..Len(keys) : keys[i] = k]]

\* the notes a vault starts with: note f is the template after that of note f - 1
NoteTemplates ==
    <<[fm |-> FALSE, data |-> EmptyObject, body |-> "text"],
     Note(Fields(<<S_lunar_birthday, S_title>>, <<Str(S_2023_02_10), Str(<<"t">>)>>)),
     Note(Fields(<<S_lunar_birthday, S_leap_key, S_birthday>>,
                 <<Str(S_leap_04_10), Str(S_label_strict), Str(<<"o", "l", "d">>)>>)),
     Note(Fields(<<S_title>>, <<Str(<<"t">>)>>)),
     Note(Fields(<<S_lunar_birthday>>, <<Str(S_2023_2_10)>>)),
     Note(Fields(<<S_lunar_birthday>>, <<[t |-> "number"]>>))>>

\* what the metadata cache holds for a content
MetadataOf(content) ==
    IF content.fm THEN [has |-> TRUE, frontmatter |-> content.data]
    ELSE [has |-> FALSE, frontmatter |-> EmptyObject]

\* the settings of the runs; each is set through the settings tab
DocSettings ==
    {DEFAULT_SETTINGS,
     [DEFAULT_SETTINGS EXCEPT !.outputMode = "range"],
     [DEFAULT_SETTINGS EXCEPT !.outputKeySingle = S_lunar_birthday],
     [DEFAULT_SETTINGS EXCEPT !.targets = << <<"d", "/">> >>]}

\* the days on which the commands run, in their order
DocTodays ==
    <<[year |-> FirstYear, month |-> 1, day |-> 1],
      [year |-> FirstYear, month |-> 7, day |-> 1]>>

Faults == {"none", "compute", "read", "modify"}

\* normalizePath of a target: slashes at its ends are removed
RECURSIVE StripSlashes(_)
StripSlashes(t) ==
    IF t # <<>> /\ Head(t) = "/" THEN StripSlashes(Tail(t))
    ELSE IF t # <<>> /\ t[Len(t)] = "/" THEN StripSlashes(SubSeq(t, 1, Len(t) - 1))
    ELSE t

\* getMarkdownFiles: the notes of the vault, those under a target when there are targets
getMarkdownFiles(config) ==
    LET targets == SelectSeq([i \in 1..Len(config.targets) |->
                                 StripSlashes(Trim(config.targets[i]))],
                             LAMBDA t : t # <<>>)
        markdownFiles == [i \in 1..MaxFiles |-> i]
        inScope(f) ==
            \E i \in 1..Len(targets) :
                \/ Path(f) = targets[i]
                \/ IsAt(Path(f), 0, targets[i] \o <<"/">>)
    IN  IF Len(targets) = 0 THEN markdownFiles ELSE SelectSeq(markdownFiles, inScope)

NoRun ==
    [status |-> "none", reason |-> "", fault |-> "none", before |-> NULL, after |-> NULL,
     updates |-> EmptyObject, prev |-> "none"]

Idle ==
    [pc |-> "idle", kind |-> "none", files |-> <<>>, idx |-> 0, results |-> <<>>,
     tally |-> NULL]

\* what a run of processFile on note f leaves in `last`
RunRecord(f, r) ==
    [status |-> r.status, reason |-> r.reason, fault |-> r.fault, before |-> vault[f],
     after |-> r.content, updates |-> r.updates, prev |-> last[f].status]

\* runOnAll, up to its loop
RunOnAll ==
    /\ batch.pc = "idle"
    /\ runs + Len(getMarkdownFiles(settings)) <= MaxRuns
    /\ batch' = [pc |-> "running", kind |-> "all", files |-> getMarkdownFiles(settings),
                 idx |-> 1, results |-> <<>>, tally |-> NULL]
    /\ UNCHANGED <<call, settings, persisted, vault, cache, today, last, runs>>

\* one turn of the loop of runOnAll: processFile of the next note.  An
\* exception that leaves processFile leaves runOnAll.
ProcessNext ==
    /\ batch.pc = "running"
    /\ batch.idx <= Len(batch.files)
    /\ runs' = runs + 1
    /\ \E f \in {batch.files[batch.idx]}, fault \in Faults :
          \E r \in {processFile(cache[f], vault[f], settings, today, fault)} :
              /\ vault' = [vault EXCEPT ![f] = r.content]
              /\ last' = [last EXCEPT ![f] = RunRecord(f, r)]
              /\ batch' = IF r.thrown THEN [batch EXCEPT !.pc = "aborted"]
                          ELSE [batch EXCEPT
                                   !.idx = batch.idx + 1,
                                   !.results = Append(batch.results,
                                       [file |-> f, status |-> r.status, reason |-> r.reason,
                                        fault |-> r.fault])]
    /\ UNCHANGED <<call, settings, persisted, cache, today>>

\* the end of runOnAll: reportResult
Report ==
    /\ batch.pc = "running"
    /\ batch.idx > Len(batch.files)
    /\ batch' = [batch EXCEPT !.pc = "idle", !.tally = reportResult(batch.results)]
    /\ UNCHANGED <<call, settings, persisted, vault, cache, today, last, runs>>

\* runOnActiveFile with an active note
RunOnActiveFile ==
    /\ batch.pc = "idle"
    /\ runs < MaxRuns
    /\ runs' = runs + 1
    /\ \E f \in Files, fault \in Faults :
          \E r \in {processFile(cache[f], vault[f], settings, today, fault)} :
          \E results \in {<<[file |-> f, status |-> r.status, reason |-> r.reason,
                              fault |-> r.fault]>>} :
              /\ vault' = [vault EXCEPT ![f] = r.content]
              /\ last' = [last EXCEPT ![f] = RunRecord(f, r)]
              /\ batch' = IF r.thrown THEN [Idle EXCEPT !.pc = "aborted", !.kind = "active"]
                          ELSE [pc |-> "idle", kind |-> "active", files |-> <<f>>, idx |-> 2,
                                results |-> results, tally |-> reportResult(results)]
    /\ UNCHANGED <<call, settings, persisted, cache, today>>

\* the host refreshes the metadata cache of a note that was written
CacheRefresh ==
    /\ \E f \in Files :
          /\ cache[f] # MetadataOf(vault[f])
          /\ cache' = [cache EXCEPT ![f] = MetadataOf(vault[f])]
    /\ UNCHANGED <<call, settings, persisted, vault, today, batch, last, runs>>

\* the day changes: a run after it is not a repetition of a run before it
Midnight ==
    /\ \E i \in 1..(Len(DocTodays) - 1) :
          /\ today = DocTodays[i]
          /\ today' = DocTodays[i + 1]
    /\ last' = [f \in Files |-> NoRun]
    /\ UNCHANGED <<call, settings, persisted, vault, cache, batch, runs>>

Init ==
    /\ call = NoCall
    /\ settings \in DocSettings
    /\ persisted = settings
    /\ \E first \in 1..Len(NoteTemplates) :
          vault = [f \in Files |-> NoteTemplates[((first + f - 2) % Len(NoteTemplates)) + 1]]
    /\ cache = [f \in Files |-> MetadataOf(vault[f])]
    /\ today = DocTodays[1]
    /\ batch = Idle
    /\ last = [f \in Files |-> NoRun]
    /\ runs = 0

Next ==
    \/ RunOnAll
    \/ ProcessNext
    \/ Report
    \/ RunOnActiveFile
    \/ CacheRefresh
    \/ Midnight

Spec == Init /\ [][Next]_vars


----------------------------------------------------------------------------
(* C3: idempotence of processFile *)

\* the runs of processFile that repeat a run on the same note: the settings
\* are those of the run before, the day is the same (Midnight forgets the run
\* before) and nothing but processFile has written the note
Repeated(f) == last[f].status # "none" /\ last[f].prev \in {"updated", "unchanged"}

\* C3: a run of processFile on a note whose run before, on the same day and
\* with the same settings, ended updated or unchanged, and in which no
\* operation of the vault fails, ends unchanged and leaves the content of
\* the note as it was.
C3_Idempotent ==
    \A f \in Files :
        Repeated(f) /\ last[f].fault = "none" =>
            /\ last[f].status = "unchanged"
            /\ last[f].after = last[f].before

\* the keys processFile wrote are not keys it reads
WritesApartFromReads(f) ==
    ObjectKeys(last[f].updates) \cap {settings.sourceKey, settings.leapStrategyKey} = {}

\* the same when the run wrote none of the two keys it reads
C3_IdempotentApartKeys ==
    \A f \in Files :
        Repeated(f) /\ last[f].fault = "none" /\ WritesApartFromReads(f) =>
            /\ last[f].status = "unchanged"
            /\ last[f].after = last[f].before

\* a repeated run that ends unchanged
C3_WitnessRepeated ==
    \E f \in Files :
        /\ Repeated(f)
        /\ last[f].prev = "updated"
        /\ last[f].status = "unchanged"
        /\ cache[f] = MetadataOf(vault[f])

----------------------------------------------------------------------------
(* C4: runOnAll *)

Tally(t) == t.updated + t.unchanged + t.skipped + t.failed

\* what holds of runOnAll at every step
BatchInv ==
    batch.kind = "all" =>
          /\ batch.pc # "aborted"
          /\ Len(batch.results) = batch.idx - 1
          /\ batch.idx <= Len(batch.files) + 1
          /\ \A i \in 1..Len(batch.results) :
                /\ batch.results[i].file = batch.files[i]
                /\ batch.results[i].status \in {"updated", "unchanged", "skipped", "failed"}
                /\ batch.results[i].fault # "none" <=>
                       (batch.results[i].status = "failed"
                        /\ batch.results[i].reason = "exception")
          /\ batch.pc = "idle" =>
                /\ Len(batch.results) = Len(batch.files)
                /\ batch.tally.failed =
                       Cardinality({i \in 1..Len(batch.results) :
                                       batch.results[i].fault # "none"})
                /\ Tally(batch.tally) = Len(batch.files)

\* a step of runOnAll is a turn of its loop, which takes the next note of the
\* same list, or reportResult after the last note
BatchStep ==
    batch.pc = "running" /\ batch' # batch =>
        \/ /\ batch.idx <= Len(batch.files)
           /\ batch'.pc = "running"
           /\ batch'.files = batch.files
           /\ batch'.idx = batch.idx + 1
           /\ SubSeq(batch'.results, 1, Len(batch.results)) = batch.results
        \/ /\ batch.idx = Len(batch.files) + 1
           /\ batch'.pc = "idle"
           /\ batch'.files = batch.files
           /\ batch'.results = batch.results

\* C4: in runOnAll an exception in processFile of one note makes the result
\* of that note failed with reason "exception" and of no other; the results
\* are those of the notes of the list, one each and in the order of the list;
\* no exception leaves runOnAll (it is never aborted); while it runs, the
\* next note or reportResult is due, and each of its steps is the turn of the
\* next note or, after the last note, reportResult, so that it ends after as
\* many turns as the list has notes; and the four counts of the notice add up
\* to the number of notes of the list.
C4_BatchIsolation ==
    /\ []BatchInv
    /\ [][BatchStep]_vars

\* runOnAll ended after a note failed and a later one was written
C4_Witness ==
    /\ batch.pc = "idle"
    /\ batch.kind = "all"
    /\ Len(batch.files) = 2
    /\ batch.results[1].status = "failed"
    /\ batch.results[2].status = "updated"
    /\ batch.tally.failed = 1
    /\ batch.tally.updated = 1

----------------------------------------------------------------------------
(* C8: what processFile leaves alone *)

\* the last run on note f kept its body and the fields it had no update for
KeepsTheRest(f) ==
    /\ last[f].after.body = last[f].before.body
    /\ \A key \in DOMAIN last[f].before.data \ ObjectKeys(last[f].updates) :
          /\ key \in DOMAIN last[f].after.data
          /\ last[f].after.data[key] = last[f].before.data[key]

\* a step changes the content of a note only by a run of processFile on it
\* that ends updated
WritesOnlyWhenUpdated ==
    \A f \in Files :
        vault'[f] # vault[f] =>
            /\ last'[f].status = "updated"
            /\ last'[f].before = vault[f]
            /\ last'[f].after = vault'[f]

\* C8: a run of processFile that ends skipped, unchanged or failed leaves the
\* content of the note as it was; a run that ends updated keeps the body of
\* the note and the value of every field that is no key of the updates;
\* and no step writes a note but such a run on it.
C8_Frame ==
    /\ [](\A f \in Files :
             /\ last[f].status \in {"skipped", "unchanged", "failed"} =>
                    last[f].after = last[f].before
             /\ last[f].status = "updated" => KeepsTheRest(f))
    /\ [][WritesOnlyWhenUpdated]_vars

\* a run ended updated on a note with a field that is no key of the updates
C8_Witness ==
    \E f \in Files :
        /\ last[f].status = "updated"
        /\ S_title \in DOMAIN last[f].before.data
        /\ S_title \notin ObjectKeys(last[f].updates)
        /\ last[f].after.data[S_title] = last[f].before.data[S_title]
        /\ last[f].after # last[f].before

====
